---- MODULE Spec2Model ----
(***************************************************************************)
(* Model of cmd/ssh_usercert_gen/main.go of keymaster: the Basic-Auth      *)
(* credential check with its LDAP / htpasswd fallback (checkUserPassword,  *)
(* checkAuth) and the certificate issuance handler (certGenHandler).       *)
(*                                                                         *)
(* Strings are modelled as sequences of symbols.  A symbol is either one   *)
(* character or a named run of identical characters (so that the 512 of    *)
(* the key regular expression keeps its real value).                       *)
(***************************************************************************)
EXTENDS Integers, Sequences, FiniteSets, TLC

(* ------------------------------------------------------------------ *)
(* Bounds of the model                                                  *)
(* ------------------------------------------------------------------ *)
\* longest LDAP_Target_URLs string, in symbols
MaxUrlSyms == 3
\* longest uploaded pubkeyfile, in symbols, of the key-validation specification
MaxKeyLen == 5

(* ------------------------------------------------------------------ *)
(* Small input sets                                                     *)
(* ------------------------------------------------------------------ *)
Usernames == {"alice", "bob"}
Passwords == {"hunter2", ""}
Methods == {"GET", "POST", "PUT"}
\* symbols LDAP_Target_URLs is written with: a well-formed URL, a piece of
\* text that is no URL, and the separator
UrlSyms == {"ldaps://ds", "%%", ","}
HtpasswdFilenames == {"", "/etc/htpasswd"}
BindPatterns == {<<"uid=", "%s", ",ou=people">>, <<"cn=admin">>}

(* ------------------------------------------------------------------ *)
(* Symbols of uploaded key files                                        *)
(* ------------------------------------------------------------------ *)
\* "#x512" is a run of 512 one-byte characters '#', "#x600" a run of 600 of
\* them, "éx512" a run of 512 two-byte characters 'é'; "Ax10000001", a run of
\* 10000001 characters 'A', occurs in sample uploads only
KeyAlphabet == {"ssh-rsa", "ssh-bogus", " ", "A", "=", "\n", "#x512", "#x600", "éx512"}

\* number of UTF-8 characters (runes) of a symbol
Runes(sym) ==
  CASE sym = "#x512" -> 512
    [] sym = "#x600" -> 600
    [] sym = "éx512" -> 512
    [] sym = "Ax10000001" -> 10000001
    [] sym = "ssh-bogus" -> 9
    [] sym = "ssh-rsa" -> 7
    [] OTHER -> 1

\* number of bytes of a symbol
Bytes(sym) ==
  CASE sym = "#x512" -> 512
    [] sym = "#x600" -> 600
    [] sym = "éx512" -> 1024
    [] sym = "Ax10000001" -> 10000001
    [] sym = "ssh-bogus" -> 9
    [] sym = "ssh-rsa" -> 7
    [] OTHER -> 1

RECURSIVE SumRunes(_, _, _)
\* runes of s[from..to]
SumRunes(s, from, to) ==
  IF from > to THEN 0 ELSE Runes(s[from]) + SumRunes(s, from + 1, to)

RECURSIVE SumBytes(_, _, _)
\* bytes of s[from..to]
SumBytes(s, from, to) ==
  IF from > to THEN 0 ELSE Bytes(s[from]) + SumBytes(s, from + 1, to)

(* ------------------------------------------------------------------ *)
(* The key regular expression of certGenHandler                         *)
(*   ^(ssh-rsa|ssh-dss|ecdsa-sha2-nistp256|ssh-ed25519) [a-zA-Z0-9/+]+=?=? ?.{0,512}\n?$ *)
(* ------------------------------------------------------------------ *)
AlgTokens == {"ssh-rsa", "ssh-dss", "ecdsa-sha2-nistp256", "ssh-ed25519"}

\* [a-zA-Z0-9/+] on the symbols of the model
Base64Chars == {"A", "/", "+", "Ax10000001"}

\* {0,512}: the repetition counts characters (runes), not bytes
MaxCommentRunes == 512

\* s[from..to] are all characters of the class
AllIn(s, from, to, class) == \A k \in from..to : s[k] \in class

\* '.' of Go's regexp is any character but newline (every run symbol is
\* made of such characters): s[from..to] are all matched by '.'
AllDot(s, from, to) == \A k \in from..to : s[k] # "\n"

\* the tail ` ?.{0,512}\n?$` once the payload and padding end at position p
CommentTail(s, p) ==
  \E sp \in 0..1, nl \in 0..1 :
    /\ p + sp + nl <= Len(s)
    /\ AllIn(s, p + 1, p + sp, {" "})
    /\ AllDot(s, p + sp + 1, Len(s) - nl)
    /\ SumRunes(s, p + sp + 1, Len(s) - nl) <= MaxCommentRunes
    /\ AllIn(s, Len(s) - nl + 1, Len(s), {"\n"})

\* the earlier pattern of the handler, whose space before the comment is
\* not optional:  ^(...) [a-zA-Z0-9/+]+=?=? .*$
MatchStringOld(s) ==
  /\ Len(s) >= 3
  /\ s[1] \in AlgTokens
  /\ s[2] = " "
  /\ \E b \in 3..Len(s), e \in 0..2 :
       /\ b + e + 1 <= Len(s)
       /\ AllIn(s, 3, b, Base64Chars)
       /\ AllIn(s, b + 1, b + e, {"="})
       /\ s[b + e + 1] = " "
       /\ AllDot(s, b + e + 2, Len(s))

\* regexp.MatchString(pattern, userPubKey)
MatchString(s) ==
  /\ Len(s) >= 3
  /\ s[1] \in AlgTokens
  /\ s[2] = " "
  /\ \E b \in 3..Len(s), e \in 0..2 :
       /\ b + e <= Len(s)
       /\ AllIn(s, 3, b, Base64Chars)
       /\ AllIn(s, b + 1, b + e, {"="})
       /\ CommentTail(s, b + e)

(* ------------------------------------------------------------------ *)
(* Configuration helpers                                                *)
(* ------------------------------------------------------------------ *)
RECURSIVE Split(_, _)
\* strings.Split(s, sep): the pieces between separators; a string without
\* separator (the empty string too) is one piece
Split(s, sep) ==
  IF \A k \in 1..Len(s) : s[k] # sep
    THEN <<s>>
    ELSE LET k == CHOOSE j \in 1..Len(s) :
                     s[j] = sep /\ \A h \in 1..(j - 1) : s[h] # sep
         IN <<SubSeq(s, 1, k - 1)>> \o Split(SubSeq(s, k + 1, Len(s)), sep)

\* authutil.ParseLDAPURL: err == nil exactly for a well-formed ldaps URL
ParseLDAPURL(piece) == piece = <<"ldaps://ds">>

RECURSIVE SprintfFrom(_, _, _)
\* the pattern from its k-th symbol on; used tells whether the operand has
\* been consumed by an earlier verb
SprintfFrom(pattern, arg, used) ==
  IF pattern = <<>> THEN <<>>
  ELSE LET h == Head(pattern)
       IN IF h = "%s"
            THEN <<(IF used THEN "%!s(MISSING)" ELSE arg)>>
                   \o SprintfFrom(Tail(pattern), arg, TRUE)
            ELSE <<h>> \o SprintfFrom(Tail(pattern), arg, used)

\* fmt.Sprintf(pattern, arg) with one string operand
Sprintf(pattern, arg) ==
  SprintfFrom(pattern, arg, FALSE)
    \o (IF \E k \in 1..Len(pattern) : pattern[k] = "%s"
          THEN <<>> ELSE <<"%!(EXTRA string=", arg, ")">>)

convertToBindDN(username, bind_pattern) == Sprintf(bind_pattern, username)

\* http.StatusText
StatusText(code) ==
  CASE code = 200 -> "OK"
    [] code = 400 -> "Bad Request"
    [] code = 401 -> "Unauthorized"
    [] code = 403 -> "Forbidden"
    [] code = 404 -> "Not Found"
    [] code = 405 -> "Method Not Allowed"
    [] code = 500 -> "Internal Server Error"
    [] OTHER -> ""

(* ------------------------------------------------------------------ *)
(* State                                                                *)
(* ------------------------------------------------------------------ *)
VARIABLES
  config,       \* RuntimeState.Config, read-only after startup
  pc,           \* position of the handler
  r,            \* the request: method, Authorization header, URL path
  form,         \* r.MultipartForm once ParseMultipartForm has succeeded
  w,            \* the http.ResponseWriter: status codes, headers, body writes
  cred,         \* user, pass of checkAuth
  i,            \* index of the range loop of checkUserPassword
  ret,          \* (valid, err) returned by checkUserPassword
  authUser,     \* result of checkAuth
  targetUser,   \* r.URL.Path[len(CERTGEN_PATH):]
  userPubKey,   \* buf.String() of the uploaded pubkeyfile
  cert,         \* the certificate text returned by the oracle
  err,          \* the error value last returned to the code, "" for nil
  consulted,    \* the backend calls made by checkUserPassword, in order
  oracleCalls,  \* the calls made to package certgen, in order
  trace,        \* the calls made by the handler, in order
  parked        \* the locals of a second handler goroutine that is not running

vars == <<config, pc, r, form, w, cred, i, ret, authUser, targetUser, userPubKey,
          cert, err, consulted, oracleCalls, trace, parked>>

CERTGEN_PATH == "/certgen/"

\* the pieces the range loop of checkUserPassword runs over
ldapUrls == Split(config.Ldap.LDAP_Target_URLs, ",")

\* all strings of at most n symbols
Strings(alphabet, n) == UNION {[1..k -> alphabet] : k \in 0..n}

Configs ==
  [Ldap : [Bind_Pattern : BindPatterns,
           LDAP_Target_URLs : Strings(UrlSyms, MaxUrlSyms)],
   Base : [Htpasswd_Filename : HtpasswdFilenames]]

\* the Authorization headers a client may send
AuthHeaders ==
  [kind : {"absent", "malformed"}, user : {""}, pass : {""}]
    \cup [kind : {"basic"}, user : Usernames, pass : Passwords]

Requests ==
  [Method : Methods, Authorization : AuthHeaders,
   Path : [prefix : {CERTGEN_PATH}, rest : Usernames]]

\* r.BasicAuth(): ok only for a well-formed Basic header
BasicAuth(h) ==
  [user |-> h.user, pass |-> h.pass, ok |-> (h.kind = "basic")]

NoRequest ==
  [Method |-> "", Authorization |-> [kind |-> "absent", user |-> "", pass |-> ""],
   Path |-> [prefix |-> CERTGEN_PATH, rest |-> ""]]

\* no multipart form parsed (yet)
NoForm == [parsed |-> FALSE, hasFile |-> FALSE, pubkeyfile |-> <<>>]

\* the parsed forms whose pubkeyfile field, if present, holds one of files
Forms(files) ==
  {[parsed |-> TRUE, hasFile |-> FALSE, pubkeyfile |-> <<>>]}
    \cup [parsed : {TRUE}, hasFile : {TRUE}, pubkeyfile : files]

NoReturn == [valid |-> FALSE, err |-> FALSE]

\* the locals of a handler that has not received its request yet
IdleLocals ==
  [pc |-> "idle", r |-> NoRequest, form |-> NoForm,
   w |-> [status |-> <<>>, headers |-> {}, body |-> <<>>],
   cred |-> [user |-> "", pass |-> ""], i |-> 0, ret |-> NoReturn,
   authUser |-> "", targetUser |-> "", userPubKey |-> <<>>, cert |-> <<>>,
   err |-> "", consulted |-> <<>>, oracleCalls |-> <<>>, trace |-> <<>>]

Init ==
  /\ config \in Configs
  /\ parked = IdleLocals
  /\ pc = "idle"
  /\ r = NoRequest
  /\ form = NoForm
  /\ w = [status |-> <<>>, headers |-> {}, body |-> <<>>]
  /\ cred = [user |-> "", pass |-> ""]
  /\ i = 0
  /\ ret = NoReturn
  /\ authUser = ""
  /\ targetUser = ""
  /\ userPubKey = <<>>
  /\ cert = <<>>
  /\ err = ""
  /\ consulted = <<>>
  /\ oracleCalls = <<>>
  /\ trace = <<>>

(* ------------------------------------------------------------------ *)
(* Responses                                                            *)
(* ------------------------------------------------------------------ *)
\* a writeFailureResponse that sets no header
FailureHeadersNone(code) == {}

\* the header writeFailureResponse sets before WriteHeader
FailureHeaders(code) ==
  IF code = 401
    THEN {<<"WWW-Authenticate", "Basic realm=\"User Credentials\"">>}
    ELSE {}

\* a public text that appends the error value at hand
publicErrorTextWithErr(code, message) ==
  <<ToString(code), " ", StatusText(code), " ", message, err, "\n">>

\* fmt.Sprintf("%d %s %s\n", code, http.StatusText(code), message)
publicErrorText(code, message) ==
  <<ToString(code), " ", StatusText(code), " ", message, "\n">>

writeFailureResponse(rw, code, message) ==
  [status |-> Append(rw.status, code),
   headers |-> rw.headers \cup FailureHeaders(code),
   body |-> Append(rw.body, publicErrorText(code, message))]

\* a GET branch that reports the oracle's error as an internal error
NotFoundAsInternalError(rw) ==
  [status |-> Append(rw.status, 500),
   headers |-> rw.headers,
   body |-> Append(rw.body, <<"500", " ", "Internal Server Error", " ", "", "\n">>)]

\* a GET branch without `return` after http.NotFound: the success tail runs
\* too, with the empty cert
NotFoundNoReturn(rw) ==
  [status |-> rw.status \o <<404, 200>>,
   headers |-> rw.headers \cup {<<"Content-Type", "text/plain; charset=utf-8">>,
                                <<"X-Content-Type-Options", "nosniff">>,
                                <<"Content-Disposition", "attachment; filename=\"id_rsa-cert.pub\"">>},
   body |-> rw.body \o <<<<"404 page not found", "\n">>, <<>>>>]

\* http.NotFound(w, r)
NotFound(rw) ==
  [status |-> Append(rw.status, 404),
   headers |-> rw.headers \cup {<<"Content-Type", "text/plain; charset=utf-8">>,
                                <<"X-Content-Type-Options", "nosniff">>},
   body |-> Append(rw.body, <<"404 page not found", "\n">>)]

\* a success tail that forgets the Content-Disposition header
writeCertificateNoHeader(rw, certText) ==
  [status |-> Append(rw.status, 200),
   headers |-> rw.headers,
   body |-> Append(rw.body, certText)]

\* the success tail of certGenHandler
writeCertificate(rw, certText) ==
  [status |-> Append(rw.status, 200),
   headers |-> rw.headers
                 \cup {<<"Content-Disposition", "attachment; filename=\"id_rsa-cert.pub\"">>},
   body |-> Append(rw.body, certText)]

(* ------------------------------------------------------------------ *)
(* External collaborators: what a call may return                       *)
(* ------------------------------------------------------------------ *)
\* error texts of the collaborators
LdapErrors == {"LDAP Result Code 200 \"Network Error\"", "ldap: timeout"}
ParseURLError == "Invalid ldap scheme"
ReadFileError == "open /etc/htpasswd: permission denied"
HtpasswdError == "htpasswd: malformed line"
FormErrors == {"request Content-Type isn't multipart/form-data", "multipart: NextPart: EOF"}
NoFileError == "http: no such file"
NoKeyError == "no public key on record"
SigningErrors == {"ssh: signing failed", "ssh: no key found"}

\* authutil.CheckLDAPUserPassword: (valid, err); a timeout is an err
LdapResults ==
  {[valid |-> TRUE, err |-> FALSE, text |-> ""],
   [valid |-> FALSE, err |-> FALSE, text |-> ""]}
    \cup [valid : {FALSE}, err : {TRUE}, text : LdapErrors]

\* ioutil.ReadFile of the htpasswd file, then authutil.CheckHtpasswdUserPassword
HtpasswdResults ==
  {[readErr |-> TRUE, valid |-> FALSE, err |-> FALSE, text |-> ReadFileError],
   [readErr |-> FALSE, valid |-> FALSE, err |-> TRUE, text |-> HtpasswdError],
   [readErr |-> FALSE, valid |-> TRUE, err |-> FALSE, text |-> ""],
   [readErr |-> FALSE, valid |-> FALSE, err |-> FALSE, text |-> ""]}

\* what certgen.GenSSHCertFileStringFromSSSDPublicKey may return as err: nil,
\* no key on record for the user, or a failure to sign the key found
SSSDErrors == {"", NoKeyError} \cup SigningErrors

\* what certgen.GenSSHCertFileString may return as err
SignErrors == {""} \cup SigningErrors

\* certificate text minted by package certgen
CertText(subject, key) == <<"ssh-cert", subject>> \o key

\* the key GenSSHCertFileStringFromSSSDPublicKey looks up by itself
SSSDKey == <<"sssd-key">>

(* ------------------------------------------------------------------ *)
(* Decisions of the code                                                *)
(* ------------------------------------------------------------------ *)
\* a handler reordered to parse the form before it checks the credential
FirstStepParse == "parseForm"

\* certGenHandler starts with checkAuth
FirstStep == "checkAuth"

\* a loop that also moves on after a definitive deny
LdapContinuesOnDeny(res) == res.err \/ ~res.valid

\* a loop that returns whatever the call gave, its error dropped
LdapContinuesNever(res) == FALSE

\* the LDAP loop: `if err != nil { continue }`, else `return vaild, nil`
LdapContinues(res) == res.err

\* what checkUserPassword returns from the LDAP loop
LdapReturn(res) == [valid |-> res.valid, err |-> FALSE]

\* after the loop: the htpasswd file is read only if a filename is configured
HasHtpasswd(cfg) == cfg.Base.Htpasswd_Filename # ""

\* what checkUserPassword returns from the htpasswd branch
HtpasswdReturn(res) ==
  IF res.readErr \/ res.err
    THEN [valid |-> FALSE, err |-> TRUE]
    ELSE [valid |-> res.valid, err |-> FALSE]

\* what checkUserPassword returns when the loop ends and no htpasswd file is
\* configured: `return false, nil`
FallThroughReturn == [valid |-> FALSE, err |-> FALSE]

\* a checkAuth that forgets `if !valid`
checkAuthFailureErrOnly(res) == IF res.err THEN 500 ELSE 0

\* checkAuth after checkUserPassword: the status it writes, 0 for none
checkAuthFailure(res) ==
  IF res.err THEN 500 ELSE IF ~res.valid THEN 401 ELSE 0

\* a comparison of the authenticated user with itself
IdentityMismatchSelf(a, t) == a # a

\* a handler that looks at the method first: for a method it does not serve
\* it never gets to compare the identities
IdentityMismatchAfterDispatch(a, t) == a # t /\ r.Method \in {"GET", "POST"}

\* `if authUser != targetUser`
IdentityMismatch(a, t) == a # t

\* the subject handed to package certgen
SigningSubject(a, t) == t

\* a handler that trims the trailing newline off the key before signing
SigningKeyTrimmed(key) ==
  IF key # <<>> /\ key[Len(key)] = "\n" THEN SubSeq(key, 1, Len(key) - 1) ELSE key

\* the key handed to package certgen
SigningKey(key) == key

\* a switch whose default case is served like a GET
DispatchDefaultGet(method) ==
  IF method = "POST" THEN "parseForm" ELSE "get"

\* switch r.Method
Dispatch(method) ==
  CASE method = "GET" -> "get"
    [] method = "POST" -> "parseForm"
    [] OTHER -> "notAllowed"

Log(ev) == trace' = Append(trace, ev)

(* ------------------------------------------------------------------ *)
(* Actions                                                              *)
(* ------------------------------------------------------------------ *)
\* a request, one of reqs, arrives at CERTGEN_PATH
Request(reqs) ==
  /\ pc = "idle"
  /\ r' \in reqs
  /\ pc' = FirstStep
  /\ UNCHANGED <<config, parked, err, form, w, cred, i, ret, authUser, targetUser,
                 userPubKey, cert, consulted, oracleCalls, trace>>

\* checkAuth up to the call of checkUserPassword
CheckAuthBasicAuth ==
  /\ pc = "checkAuth"
  /\ LET ba == BasicAuth(r.Authorization)
     IN IF ~ba.ok
          THEN /\ w' = writeFailureResponse(w, 401, "")
               /\ err' = "check_Auth, Invalid or no auth header"
               /\ pc' = "done"
               /\ UNCHANGED <<cred, i>>
          ELSE /\ cred' = [user |-> ba.user, pass |-> ba.pass]
               /\ i' = 1
               /\ pc' = "ldapLoop"
               /\ UNCHANGED <<w, err>>
  /\ Log("BasicAuth")
  /\ UNCHANGED <<config, parked, form, r, ret, authUser, targetUser, userPubKey, cert,
                 consulted, oracleCalls>>

bindDN == convertToBindDN(cred.user, config.Ldap.Bind_Pattern)

\* one iteration whose URL does not parse
LdapParseFailure ==
  /\ pc = "ldapLoop"
  /\ i <= Len(ldapUrls)
  /\ ~ParseLDAPURL(ldapUrls[i])
  /\ consulted' = Append(consulted,
       [kind |-> "ldap", idx |-> i, name |-> bindDN, pass |-> cred.pass,
        result |-> "parseerr"])
  /\ i' = i + 1
  /\ err' = ParseURLError
  /\ UNCHANGED <<config, parked, pc, form, r, w, cred, ret, authUser, targetUser,
                 userPubKey, cert, oracleCalls, trace>>

\* one iteration that calls the directory service
LdapCheck ==
  /\ pc = "ldapLoop"
  /\ i <= Len(ldapUrls)
  /\ ParseLDAPURL(ldapUrls[i])
  /\ \E res \in LdapResults :
       /\ consulted' = Append(consulted,
            [kind |-> "ldap", idx |-> i, name |-> bindDN, pass |-> cred.pass,
             result |-> IF res.err THEN "err"
                        ELSE IF res.valid THEN "allow" ELSE "deny"])
       /\ IF LdapContinues(res)
            THEN i' = i + 1 /\ UNCHANGED <<pc, ret>>
            ELSE ret' = LdapReturn(res) /\ pc' = "authReturn" /\ UNCHANGED i
       /\ err' = res.text
  /\ UNCHANGED <<config, parked, form, r, w, cred, authUser, targetUser, userPubKey, cert,
                 oracleCalls, trace>>

\* a loop bound that is off by one: the loop waits for a URL that is not there
RangeDoneLate(k, urls) == k > Len(urls) + 1

\* the range loop over the URLs ends after the last piece
RangeDone(k, urls) == k > Len(urls)

\* the loop is over: the htpasswd branch, or `return false, nil`
LdapLoopEnd ==
  /\ pc = "ldapLoop"
  /\ RangeDone(i, ldapUrls)
  /\ IF HasHtpasswd(config)
       THEN pc' = "htpasswd" /\ UNCHANGED ret
       ELSE ret' = FallThroughReturn /\ pc' = "authReturn"
  /\ UNCHANGED <<config, parked, err, form, r, w, cred, i, authUser, targetUser, userPubKey,
                 cert, consulted, oracleCalls, trace>>

\* the htpasswd branch of checkUserPassword
Htpasswd ==
  /\ pc = "htpasswd"
  /\ \E res \in HtpasswdResults :
       /\ consulted' = Append(consulted,
            [kind |-> "htpasswd", idx |-> Len(ldapUrls) + 1,
             name |-> <<cred.user>>, pass |-> cred.pass,
             result |-> IF res.readErr THEN "readerr"
                        ELSE IF res.err THEN "err"
                        ELSE IF res.valid THEN "allow" ELSE "deny"])
       /\ ret' = HtpasswdReturn(res)
       /\ err' = res.text
  /\ pc' = "authReturn"
  /\ UNCHANGED <<config, parked, form, r, w, cred, i, authUser, targetUser, userPubKey,
                 cert, oracleCalls, trace>>

\* checkAuth after checkUserPassword, and the handler's `if err != nil`
CheckAuthReturn ==
  /\ pc = "authReturn"
  /\ LET code == checkAuthFailure(ret)
     IN IF code # 0
          THEN /\ w' = writeFailureResponse(w, code, "")
               /\ err' = IF ret.err THEN err ELSE "Invalid Credentials"
               /\ pc' = "done"
               /\ Log("checkAuth:err")
               /\ UNCHANGED authUser
          ELSE /\ authUser' = cred.user
               /\ err' = ""
               /\ pc' = "identity"
               /\ Log("checkAuth:ok")
               /\ UNCHANGED w
  /\ UNCHANGED <<config, parked, form, r, cred, i, ret, targetUser, userPubKey, cert,
                 consulted, oracleCalls>>

\* the identity check and the switch on r.Method
IdentityCheck ==
  /\ pc = "identity"
  /\ targetUser' = r.Path.rest
  /\ IF IdentityMismatch(authUser, targetUser')
       THEN /\ w' = writeFailureResponse(w, 403, "")
            /\ pc' = "done"
       ELSE IF Dispatch(r.Method) = "notAllowed"
         THEN /\ w' = writeFailureResponse(w, 405, "")
              /\ pc' = "done"
         ELSE /\ pc' = Dispatch(r.Method)
              /\ UNCHANGED w
  /\ Log("identity")
  /\ UNCHANGED <<config, parked, err, form, r, cred, i, ret, authUser, userPubKey, cert,
                 consulted, oracleCalls>>

\* case "GET"
GetCert ==
  /\ pc = "get"
  /\ oracleCalls' = Append(oracleCalls,
       [fn |-> "GenSSHCertFileStringFromSSSDPublicKey",
        subject |-> SigningSubject(authUser, targetUser), key |-> <<>>])
  /\ \E e \in SSSDErrors :
       /\ err' = e
       /\ IF e = ""
            THEN /\ cert' = CertText(SigningSubject(authUser, targetUser), SSSDKey)
                 /\ w' = writeCertificate(w, cert')
            ELSE /\ w' = NotFound(w)
                 /\ UNCHANGED cert
  /\ pc' = "done"
  /\ Log("GenSSHCertFileStringFromSSSDPublicKey")
  /\ UNCHANGED <<config, parked, form, r, cred, i, ret, authUser, targetUser, userPubKey,
                 consulted>>

\* the maxMemory argument of ParseMultipartForm: file parts beyond it are
\* kept in temporary files, not refused
MaxMemory == 10000000

\* case "POST": r.ParseMultipartForm(1e7); files is the set of contents a
\* client may have put in the pubkeyfile field
ParseMultipartForm(files) ==
  /\ pc = "parseForm"
  /\ \/ /\ w' = writeFailureResponse(w, 400, "Error parsing form")
        /\ err' \in FormErrors
        /\ pc' = "done"
        /\ UNCHANGED form
     \/ /\ form' \in Forms(files)
        /\ err' = ""
        /\ pc' = "formFile"
        /\ UNCHANGED w
  /\ Log("ParseMultipartForm")
  /\ UNCHANGED <<config, parked, r, cred, i, ret, authUser, targetUser, userPubKey,
                 cert, consulted, oracleCalls>>

\* r.FormFile("pubkeyfile") and the read of the file into userPubKey
FormFile ==
  /\ pc = "formFile"
  /\ IF ~form.hasFile
       THEN /\ w' = writeFailureResponse(w, 400, "Missing public key file")
            /\ err' = NoFileError
            /\ pc' = "done"
            /\ UNCHANGED userPubKey
       ELSE /\ userPubKey' = form.pubkeyfile
            /\ err' = ""
            /\ pc' = "matchKey"
            /\ UNCHANGED w
  /\ Log("FormFile")
  /\ UNCHANGED <<config, parked, form, r, cred, i, ret, authUser, targetUser, cert,
                 consulted, oracleCalls>>

\* regexp.MatchString on the key; the pattern is a constant that compiles,
\* so err is nil
MatchKey ==
  /\ pc = "matchKey"
  /\ IF ~MatchString(userPubKey)
       THEN /\ w' = writeFailureResponse(w, 400, "Invalid File, bad re")
            /\ pc' = "done"
       ELSE /\ pc' = "sign"
            /\ UNCHANGED w
  /\ Log("MatchString")
  /\ UNCHANGED <<config, parked, err, form, r, cred, i, ret, authUser, targetUser, userPubKey,
                 cert, consulted, oracleCalls>>

\* certgen.GenSSHCertFileString and the response
SignKey ==
  /\ pc = "sign"
  /\ oracleCalls' = Append(oracleCalls,
       [fn |-> "GenSSHCertFileString",
        subject |-> SigningSubject(authUser, targetUser),
        key |-> SigningKey(userPubKey)])
  /\ \E e \in SignErrors :
       /\ err' = e
       /\ IF e = ""
            THEN /\ cert' = CertText(SigningSubject(authUser, targetUser),
                                     SigningKey(userPubKey))
                 /\ w' = writeCertificate(w, cert')
            ELSE /\ w' = writeFailureResponse(w, 500, "")
                 /\ UNCHANGED cert
  /\ pc' = "done"
  /\ Log("GenSSHCertFileString")
  /\ UNCHANGED <<config, parked, form, r, cred, i, ret, authUser, targetUser, userPubKey,
                 consulted>>

(* ------------------------------------------------------------------ *)
(* Specification of the handler                                         *)
(* ------------------------------------------------------------------ *)
\* the pubkeyfile contents clients upload in the handler specification
SampleKeys ==
  {<<"ssh-rsa", " ", "A">>,
   <<"ssh-rsa", " ", "A", "=", " ", "A", "\n">>,
   <<"ssh-rsa", " ", "A", "\n", "ssh-rsa", " ", "A", "\n">>,
   <<"ssh-bogus", " ", "A", " ", "\n">>,
   <<"ssh-rsa", "A">>,
   <<"ssh-rsa", " ", "A", " ", "#x600">>,
   <<"ssh-rsa", " ", "A", " ", "#x512">>,
   <<"ssh-rsa", " ", "A", "#x512">>,
   <<"ssh-rsa", " ", "A", " ", "éx512", "\n">>,
   <<"ssh-rsa", " ", "Ax10000001">>}

ParseSample == ParseMultipartForm(SampleKeys)

AnyRequest == Request(Requests)

Next ==
  \/ AnyRequest
  \/ CheckAuthBasicAuth
  \/ LdapParseFailure
  \/ LdapCheck
  \/ LdapLoopEnd
  \/ Htpasswd
  \/ CheckAuthReturn
  \/ IdentityCheck
  \/ GetCert
  \/ ParseSample
  \/ FormFile
  \/ MatchKey
  \/ SignKey

Spec == Init /\ [][Next]_vars

(* ------------------------------------------------------------------ *)
(* Specification of the key validation: one configuration, one POST     *)
(* request for the caller's own identity, every key file of at most     *)
(* MaxKeyLen symbols                                                     *)
(* ------------------------------------------------------------------ *)
BoundedKeys == Strings(KeyAlphabet, MaxKeyLen)

KeyConfig ==
  [Ldap |-> [Bind_Pattern |-> <<"uid=", "%s", ",ou=people">>,
             LDAP_Target_URLs |-> <<"ldaps://ds">>],
   Base |-> [Htpasswd_Filename |-> ""]]

KeyRequests ==
  {req \in Requests :
     /\ req.Method = "POST"
     /\ req.Authorization = [kind |-> "basic", user |-> "alice", pass |-> "hunter2"]
     /\ req.Path.rest = "alice"}

InitKey == Init /\ config = KeyConfig

KeyRequest == Request(KeyRequests)

ParseBounded == ParseMultipartForm(BoundedKeys)

NextKey ==
  \/ KeyRequest
  \/ CheckAuthBasicAuth
  \/ LdapCheck
  \/ LdapLoopEnd
  \/ CheckAuthReturn
  \/ IdentityCheck
  \/ ParseBounded
  \/ FormFile
  \/ MatchKey
  \/ SignKey

SpecKey == InitKey /\ [][NextKey]_vars

(* ------------------------------------------------------------------ *)
(* Specification of two concurrent handlers: net/http runs each request *)
(* in its own goroutine; the variables hold the locals of the goroutine *)
(* that runs, parked those of the other, and config is what they share  *)
(* ------------------------------------------------------------------ *)
\* the locals of the running handler
Locals ==
  [pc |-> pc, r |-> r, form |-> form, w |-> w, cred |-> cred, i |-> i,
   ret |-> ret, authUser |-> authUser, targetUser |-> targetUser,
   userPubKey |-> userPubKey, cert |-> cert, err |-> err,
   consulted |-> consulted, oracleCalls |-> oracleCalls, trace |-> trace]

\* an authUser kept in a package-level variable: the resumed handler finds
\* what the other handler left there
GlobalAuthUser(running, resumed) == running

\* authUser is a local of certGenHandler: the resumed handler finds its own
LocalAuthUser(running, resumed) == resumed

\* the scheduler runs the other goroutine
Switch ==
  /\ parked' = Locals
  /\ pc' = parked.pc
  /\ r' = parked.r
  /\ form' = parked.form
  /\ w' = parked.w
  /\ cred' = parked.cred
  /\ i' = parked.i
  /\ ret' = parked.ret
  /\ authUser' = LocalAuthUser(authUser, parked.authUser)
  /\ targetUser' = parked.targetUser
  /\ userPubKey' = parked.userPubKey
  /\ cert' = parked.cert
  /\ err' = parked.err
  /\ consulted' = parked.consulted
  /\ oracleCalls' = parked.oracleCalls
  /\ trace' = parked.trace
  /\ UNCHANGED config

ConcRequests ==
  {req \in Requests :
     /\ req.Method \in {"GET", "PUT"}
     /\ req.Authorization.kind # "malformed"
     /\ req.Authorization.pass \in {"", "hunter2"}}

ConcRequest == Request(ConcRequests)

InitConc == Init /\ config = KeyConfig

NextConc ==
  \/ ConcRequest
  \/ CheckAuthBasicAuth
  \/ LdapCheck
  \/ LdapLoopEnd
  \/ CheckAuthReturn
  \/ IdentityCheck
  \/ GetCert
  \/ Switch

SpecConc == InitConc /\ [][NextConc]_vars

(* ------------------------------------------------------------------ *)
(* Specification with fairness: a handler goroutine that can take a     *)
(* step takes it, and a directory call returns, at the latest with the  *)
(* timeout error after the timeoutSecs of checkUserPassword             *)
(* ------------------------------------------------------------------ *)
timeoutSecs == 3

Fairness ==
  /\ WF_vars(LdapParseFailure)
  /\ WF_vars(LdapCheck)
  /\ WF_vars(LdapLoopEnd)
  /\ WF_vars(Htpasswd)

SpecLive == Init /\ [][Next]_vars /\ Fairness

TypeOK ==
  /\ pc \in {"idle", "checkAuth", "ldapLoop", "htpasswd", "authReturn",
             "identity", "get", "parseForm", "formFile", "matchKey", "sign",
             "done"}
  /\ Len(w.status) <= 1

(* ------------------------------------------------------------------ *)
(* Vocabulary of the properties                                         *)
(* ------------------------------------------------------------------ *)
Definitive(c) == c.result \in {"allow", "deny"}
Structural(c) == c.result \in {"parseerr", "err", "readerr"}

\* the request carries a well-formed Basic credential
HasCredential == r.Authorization.kind = "basic"

\* checkUserPassword has returned (true, nil)
AuthSucceeded == ret.valid /\ ~ret.err

\* checkUserPassword has returned
AuthReturned == pc \in {"authReturn", "identity", "get", "parseForm",
                       "formFile", "matchKey", "sign", "done"}
                  /\ consulted # <<>>

Happened(ev) == \E k \in DOMAIN trace : trace[k] = ev

\* backend call c was made with the credential of the request
ForPresentedCredential(c) ==
  /\ HasCredential
  /\ c.pass = r.Authorization.pass
  /\ c.name = IF c.kind = "ldap"
                THEN convertToBindDN(r.Authorization.user, config.Ldap.Bind_Pattern)
                ELSE <<r.Authorization.user>>

(* ------------------------------------------------------------------ *)
(* C1                                                                   *)
(* ------------------------------------------------------------------ *)
\* C1: when authentication succeeds and the requested identity differs from
\* the authenticated username, the handler never calls the oracle, never
\* goes past the identity check, and answers 403.
C1_MismatchForbidden ==
  (AuthSucceeded /\ r.Path.rest # r.Authorization.user)
    => /\ oracleCalls = <<>>
       /\ pc \in {"authReturn", "identity", "done"}
       /\ (pc = "done" => w.status = <<403>>)

C1_Witness ==
  /\ pc = "done"
  /\ AuthSucceeded
  /\ r.Path.rest # r.Authorization.user
  /\ w.status = <<403>>
  /\ Happened("identity")

(* ------------------------------------------------------------------ *)
(* C2                                                                   *)
(* ------------------------------------------------------------------ *)
\* C2: whenever the oracle has been called, a backend gave a positive
\* definitive verdict for the credential of this request, and every call
\* has the authenticated username as its subject.
C2_OracleOnlyAfterAllow ==
  (oracleCalls # <<>>)
    => /\ \E k \in DOMAIN consulted :
            consulted[k].result = "allow" /\ ForPresentedCredential(consulted[k])
       /\ \A k \in DOMAIN oracleCalls :
            oracleCalls[k].subject = r.Authorization.user

C2_Witness ==
  /\ oracleCalls # <<>>
  /\ Len(consulted) >= 2
  /\ Structural(consulted[1])
  /\ r.Method = "GET"

(* ------------------------------------------------------------------ *)
(* C3                                                                   *)
(* ------------------------------------------------------------------ *)
\* C3: backends are consulted in the fixed order (the pieces of
\* LDAP_Target_URLs in order, the htpasswd file last); the first definitive
\* verdict ends the consultation and is what checkUserPassword returns.
C3_FirstDefinitiveWins ==
  /\ \A k \in DOMAIN consulted :
       /\ consulted[k].idx = k
       /\ (consulted[k].kind = "ldap") = (k <= Len(ldapUrls))
  /\ \A k \in DOMAIN consulted :
       Definitive(consulted[k])
         => /\ k = Len(consulted)
            /\ AuthReturned
            /\ ret = [valid |-> (consulted[k].result = "allow"), err |-> FALSE]

C3_Witness ==
  /\ pc = "done"
  /\ Len(consulted) = 2
  /\ consulted[2].result = "deny"
  /\ Len(ldapUrls) = 3
  /\ HasHtpasswd(config)
  /\ w.status = <<401>>

(* ------------------------------------------------------------------ *)
(* C4                                                                   *)
(* ------------------------------------------------------------------ *)
\* C4: a directory backend that fails structurally is skipped (the loop moves
\* on to the next backend), and when the first backend fails structurally
\* and the second renders a verdict, that verdict is the result.
C4_StructuralFailureSkipped ==
  /\ \A k \in DOMAIN consulted :
       (consulted[k].kind = "ldap" /\ Structural(consulted[k])) => i > k
  /\ (Len(consulted) >= 2 /\ Structural(consulted[1]) /\ Definitive(consulted[2]))
       => /\ AuthReturned
          /\ ret = [valid |-> (consulted[2].result = "allow"), err |-> FALSE]

C4_Witness ==
  /\ pc = "done"
  /\ Len(consulted) = 2
  /\ consulted[1].result = "err"
  /\ consulted[2].result = "allow"
  /\ consulted[2].kind = "htpasswd"
  /\ w.status = <<200>>

(* ------------------------------------------------------------------ *)
(* C5                                                                   *)
(* ------------------------------------------------------------------ *)
\* C5: when a directory backend is configured and every backend consulted
\* for a request failed structurally, checkUserPassword returns an error and
\* the handler answers 500.
C5_AllBackendsFail500 ==
  (pc = "done" /\ consulted # <<>>
     /\ (\E k \in DOMAIN ldapUrls : ParseLDAPURL(ldapUrls[k]))
     /\ \A k \in DOMAIN consulted : Structural(consulted[k]))
    => ret.err /\ w.status = <<500>>

(* ------------------------------------------------------------------ *)
(* C6                                                                   *)
(* ------------------------------------------------------------------ *)
\* what the handler does after checkAuth
AfterAuthWork ==
  {"identity", "ParseMultipartForm", "FormFile", "MatchString",
   "GenSSHCertFileString", "GenSSHCertFileStringFromSSSDPublicKey"}

KeyWork == {"ParseMultipartForm", "FormFile", "MatchString"}

SomeAllow == \E k \in DOMAIN consulted : consulted[k].result = "allow"

\* C6: the identity comparison, the form parsing, the key read and the regex
\* match happen only after checkAuth has succeeded, and a request no backend
\* has allowed never reaches the form parsing, the key read or the regex.
C6_AuthFirst ==
  /\ \A k \in DOMAIN trace :
       trace[k] \in AfterAuthWork
         => \E j \in 1..(k - 1) : trace[j] = "checkAuth:ok"
  /\ ~SomeAllow
       => /\ \A k \in DOMAIN trace : trace[k] \notin KeyWork
          /\ form = NoForm
          /\ userPubKey = <<>>
          /\ pc \notin {"parseForm", "formFile", "matchKey", "sign"}

C6_Witness ==
  /\ pc = "done"
  /\ trace = <<"BasicAuth", "checkAuth:ok", "identity", "ParseMultipartForm",
               "FormFile", "MatchString">>
  /\ w.status = <<400>>

(* ------------------------------------------------------------------ *)
(* C7                                                                   *)
(* ------------------------------------------------------------------ *)
Challenge == <<"WWW-Authenticate", "Basic realm=\"User Credentials\"">>

SomeDeny == \E k \in DOMAIN consulted : consulted[k].result = "deny"

\* C7: a request without a well-formed Basic header consults no backend; such
\* a request, and one whose credential got a definitive deny, never has the
\* oracle called and ends with 401 and the WWW-Authenticate challenge.
C7_UnauthorizedChallenge ==
  /\ ~HasCredential => consulted = <<>>
  /\ (pc # "idle" /\ (~HasCredential \/ SomeDeny))
       => /\ oracleCalls = <<>>
          /\ (pc = "done" => (w.status = <<401>> /\ Challenge \in w.headers))

C7_Witness ==
  /\ pc = "done"
  /\ Len(consulted) = 2
  /\ consulted[2].kind = "htpasswd"
  /\ consulted[2].result = "deny"
  /\ w.status = <<401>>
  /\ Challenge \in w.headers

(* ------------------------------------------------------------------ *)
(* C8                                                                   *)
(* ------------------------------------------------------------------ *)
\* C8: a POST that authenticates as u, asks for u and uploads a key the
\* validator accepts ends with exactly one oracle call, for subject u and
\* with the uploaded bytes unchanged; no request has more than one call.
C8_OneSigningRequest ==
  /\ Len(oracleCalls) <= 1
  /\ (pc = "done" /\ r.Method = "POST" /\ AuthSucceeded
        /\ r.Path.rest = r.Authorization.user
        /\ form.hasFile /\ MatchString(form.pubkeyfile))
       => oracleCalls = <<[fn |-> "GenSSHCertFileString",
                           subject |-> r.Authorization.user,
                           key |-> form.pubkeyfile]>>

C8_Witness ==
  /\ pc = "done"
  /\ r.Method = "POST"
  /\ Len(oracleCalls) = 1
  /\ oracleCalls[1].key = <<"ssh-rsa", " ", "A", "=", " ", "A", "\n">>
  /\ oracleCalls[1].subject = "bob"
  /\ w.status = <<200>>

(* ------------------------------------------------------------------ *)
(* The key grammar of the specification                                 *)
(* ------------------------------------------------------------------ *)
GrammarAlgorithms == {"ssh-rsa", "ssh-dss", "ecdsa-sha2-nistp256", "ssh-ed25519"}

MaxCommentBytes == 512

\* <algorithm-token><space><base64-payload>[<space><comment>] and at most
\* one trailing newline; the comment is text of one line of at most
\* MaxCommentBytes bytes
Conforms(s) ==
  /\ Len(s) >= 3
  /\ s[1] \in GrammarAlgorithms
  /\ s[2] = " "
  /\ \E b \in 3..Len(s), e \in 0..2, nl \in 0..1 :
       /\ b + e + nl <= Len(s)
       /\ \A k \in 3..b : s[k] \in Base64Chars
       /\ \A k \in (b + 1)..(b + e) : s[k] = "="
       /\ \A k \in (Len(s) - nl + 1)..Len(s) : s[k] = "\n"
       /\ \/ b + e + nl = Len(s)
          \/ /\ s[b + e + 1] = " "
             /\ \A k \in (b + e + 2)..(Len(s) - nl) : s[k] # "\n"
             /\ SumBytes(s, b + e + 2, Len(s) - nl) <= MaxCommentBytes

\* the handler has read an uploaded pubkeyfile and has finished
UploadHandled == pc = "done" /\ Happened("MatchString")

(* ------------------------------------------------------------------ *)
(* C9                                                                   *)
(* ------------------------------------------------------------------ *)
\* C9: every uploaded key that deviates from the key grammar is answered with
\* 400 and is not handed to the oracle.
C9_DeviationRejected ==
  (UploadHandled /\ ~Conforms(userPubKey))
    => w.status = <<400>> /\ oracleCalls = <<>>

(* ------------------------------------------------------------------ *)
(* C10                                                                  *)
(* ------------------------------------------------------------------ *)
\* C10: every uploaded key that conforms to the key grammar passes the
\* validator and is handed, unchanged, to the oracle.
C10_ConformingAccepted ==
  /\ Conforms(userPubKey) => MatchString(userPubKey)
  /\ (UploadHandled /\ Conforms(userPubKey))
       => /\ w.status # <<400>>
          /\ Len(oracleCalls) = 1
          /\ oracleCalls[1].fn = "GenSSHCertFileString"
          /\ oracleCalls[1].key = userPubKey

C10_Witness ==
  /\ UploadHandled
  /\ userPubKey = <<"ssh-rsa", " ", "A", " ", "#x512">>
  /\ Len(oracleCalls) = 1
  /\ w.status = <<200>>


(* ------------------------------------------------------------------ *)
(* C11                                                                  *)
(* ------------------------------------------------------------------ *)
OtherMethod == r.Method \notin {"GET", "POST"}

\* C11 as stated: every finished request whose method is neither GET nor POST
\* has been answered with 405 and made no oracle call.
C11_AnyOtherMethod405 ==
  (pc = "done" /\ OtherMethod) => (w.status = <<405>> /\ oracleCalls = <<>>)

\* C11 amended: a request whose method is neither GET nor POST never has the
\* oracle called, and once it has authenticated and asks for its own identity
\* it is answered with 405.
C11_OwnIdentityOtherMethod405 ==
  /\ (pc # "idle" /\ OtherMethod) => oracleCalls = <<>>
  /\ (pc = "done" /\ OtherMethod /\ AuthSucceeded
        /\ r.Path.rest = r.Authorization.user)
       => w.status = <<405>>

C11_Witness ==
  /\ pc = "done"
  /\ r.Method = "PUT"
  /\ AuthSucceeded
  /\ r.Path.rest = r.Authorization.user
  /\ w.status = <<405>>


(* ------------------------------------------------------------------ *)
(* C12                                                                  *)
(* ------------------------------------------------------------------ *)
\* an authenticated GET for the caller's own identity has been answered
OwnGetDone ==
  /\ pc = "done"
  /\ r.Method = "GET"
  /\ AuthSucceeded
  /\ r.Path.rest = r.Authorization.user

\* C12: an authenticated GET for the caller's own identity gets the
\* certificate signed for the key on record when the lookup oracle returns
\* one, and 404 (not 500, not 200) when no key is on record.
C12_GetCertOrNotFound ==
  OwnGetDone
    => /\ Len(oracleCalls) = 1
       /\ oracleCalls[1].fn = "GenSSHCertFileStringFromSSSDPublicKey"
       /\ (err = "" => /\ w.status = <<200>>
                       /\ w.body = <<CertText(r.Authorization.user, SSSDKey)>>)
       /\ (err = NoKeyError => w.status = <<404>>)

C12_Witness ==
  /\ OwnGetDone
  /\ err = NoKeyError
  /\ w.status = <<404>>
  /\ w.body = <<<<"404 page not found", "\n">>>>

(* ------------------------------------------------------------------ *)
(* C13                                                                  *)
(* ------------------------------------------------------------------ *)
\* C13: the oracle is called at most once per request, and a request whose
\* oracle call failed to sign (as opposed to finding no key on record) has
\* been answered with 500.
C13_SigningFailure500 ==
  /\ Len(oracleCalls) <= 1
  /\ (pc = "done" /\ oracleCalls # <<>> /\ err \in SigningErrors)
       => w.status = <<500>>


(* ------------------------------------------------------------------ *)
(* C14                                                                  *)
(* ------------------------------------------------------------------ *)
Attachment == <<"Content-Disposition", "attachment; filename=\"id_rsa-cert.pub\"">>

\* the oracle has been called and has returned a certificate
OracleSucceeded == pc = "done" /\ Len(oracleCalls) = 1 /\ err = ""

\* the certificate text the oracle returned for its call c
Returned(c) ==
  CertText(c.subject,
           IF c.fn = "GenSSHCertFileString" THEN c.key ELSE SSSDKey)

\* C14: when the oracle succeeds for an authenticated request for its own
\* identity the response is 200 with the Content-Disposition header and the
\* oracle's certificate text as its only body; a response that is not a 200
\* never carries the header.
C14_SuccessResponse ==
  /\ OracleSucceeded
       => /\ AuthSucceeded
          /\ r.Path.rest = r.Authorization.user
          /\ w.status = <<200>>
          /\ Attachment \in w.headers
          /\ w.body = <<Returned(oracleCalls[1])>>
  /\ w.status # <<200>> => Attachment \notin w.headers

C14_Witness ==
  /\ OracleSucceeded
  /\ r.Method = "POST"
  /\ r.Authorization.user = "alice"
  /\ w.status = <<200>>
  /\ Attachment \in w.headers
  /\ w.body = <<<<"ssh-cert", "alice", "ssh-rsa", " ", "A">>>>


(* ------------------------------------------------------------------ *)
(* C15                                                                  *)
(* ------------------------------------------------------------------ *)
TerminalCodes == {200, 400, 401, 403, 404, 405, 500}

\* C15: nothing is written before the handler ends, and when it has ended
\* exactly one status, one of the seven terminal codes, and exactly one body
\* have been written.
C15_ExactlyOneTerminal ==
  /\ pc # "done" => (w.status = <<>> /\ w.body = <<>>)
  /\ pc = "done" => /\ Len(w.status) = 1
                    /\ w.status[1] \in TerminalCodes
                    /\ Len(w.body) = 1

C15_Witness ==
  /\ pc = "done"
  /\ w.status = <<404>>
  /\ Len(w.body) = 1
  /\ Len(trace) = 4


(* ------------------------------------------------------------------ *)
(* C16                                                                  *)
(* ------------------------------------------------------------------ *)
\* the status a handler with locals h writes when it serves h.r alone, given
\* what its own backend and oracle calls returned
SoloStatus(h) ==
  IF h.r.Authorization.kind # "basic" THEN 401
  ELSE IF h.ret.err THEN 500
  ELSE IF ~h.ret.valid THEN 401
  ELSE IF h.r.Path.rest # h.r.Authorization.user THEN 403
  ELSE IF h.r.Method = "GET" THEN (IF h.err = "" THEN 200 ELSE 404)
  ELSE IF h.r.Method # "POST" THEN 405
  ELSE IF ~h.form.parsed \/ ~h.form.hasFile \/ ~MatchString(h.form.pubkeyfile)
    THEN 400
  ELSE IF h.err = "" THEN 200 ELSE 500

\* the credential, the authentication outcome, the oracle call and the
\* response of the handler with locals h come from its own request only
RequestLocal(h) ==
  /\ h.pc \notin {"idle", "checkAuth"} /\ h.r.Authorization.kind = "basic"
       => h.cred = [user |-> h.r.Authorization.user,
                    pass |-> h.r.Authorization.pass]
  /\ \A k \in DOMAIN h.consulted :
       /\ h.consulted[k].pass = h.r.Authorization.pass
       /\ h.consulted[k].name
            = convertToBindDN(h.r.Authorization.user, config.Ldap.Bind_Pattern)
  /\ h.authUser \in {"", h.r.Authorization.user}
  /\ \A k \in DOMAIN h.oracleCalls :
       /\ h.oracleCalls[k].subject = h.r.Authorization.user
       /\ h.r.Path.rest = h.r.Authorization.user
       /\ \E j \in DOMAIN h.consulted : h.consulted[j].result = "allow"
  /\ h.pc = "done" => h.w.status = <<SoloStatus(h)>>

\* C16: under every interleaving of two handlers the configuration stays what
\* it was at startup, and each handler's credential, authentication outcome,
\* oracle call and response are those of its own request handled alone.
C16_RequestLocal ==
  /\ config = KeyConfig
  /\ RequestLocal(Locals)
  /\ RequestLocal(parked)

\* both handlers have finished, interleaved, one issuing for alice and the
\* other refused for asking for alice as bob
C16_Witness ==
  /\ pc = "done"
  /\ parked.pc = "done"
  /\ r.Authorization.user = "alice"
  /\ w.status = <<200>>
  /\ parked.r.Authorization.user = "bob"
  /\ parked.r.Path.rest = "alice"
  /\ parked.ret.valid
  /\ parked.w.status = <<403>>


(* ------------------------------------------------------------------ *)
(* C17                                                                  *)
(* ------------------------------------------------------------------ *)
\* the uploaded pubkeyfile alone is larger than the handler's only size
\* figure, the 1e7 of ParseMultipartForm
BodyOversized == form.hasFile /\ SumBytes(form.pubkeyfile, 1, Len(form.pubkeyfile)) > MaxMemory

\* C17: a POST whose body exceeds the size bound never has its key matched
\* against the regex or handed to the oracle, and is answered with 400.
C17_OversizedRejected ==
  (r.Method = "POST" /\ BodyOversized)
    => /\ ~Happened("MatchString")
       /\ oracleCalls = <<>>
       /\ (pc = "done" => w.status = <<400>>)


(* ------------------------------------------------------------------ *)
(* C18                                                                  *)
(* ------------------------------------------------------------------ *)
\* every error text a collaborator may return
InternalErrorTexts ==
  LdapErrors \cup FormErrors \cup SigningErrors
    \cup {ParseURLError, ReadFileError, HtpasswdError, NoFileError, NoKeyError}

\* the step at which the handler ended
TerminalStep == trace[Len(trace)]

\* the fixed message of the rule that ended the request
RuleMessage ==
  CASE TerminalStep = "ParseMultipartForm" -> "Error parsing form"
    [] TerminalStep = "FormFile" -> "Missing public key file"
    [] TerminalStep = "MatchString" -> "Invalid File, bad re"
    [] OTHER -> ""

\* the body of a failure response with that status, ended by that rule
RuleBody(code) ==
  IF code = 404
    THEN <<"404 page not found", "\n">>
    ELSE <<ToString(code), " ", StatusText(code), " ", RuleMessage, "\n">>

\* C18: the body of a failure response is the text fixed by its status code
\* and the rule that ended the request, whatever error a Credential Verifier,
\* the form parser or the oracle returned; it holds no internal error text.
C18_FixedFailureBody ==
  (pc = "done" /\ w.status # <<200>>)
    => /\ w.body = <<RuleBody(w.status[1])>>
       /\ \A k \in DOMAIN w.body[1] : w.body[1][k] \notin InternalErrorTexts

C18_Witness ==
  /\ pc = "done"
  /\ err = ReadFileError
  /\ w.status = <<500>>
  /\ w.body = <<<<"500", " ", "Internal Server Error", " ", "", "\n">>>>


(* ------------------------------------------------------------------ *)
(* C19                                                                  *)
(* ------------------------------------------------------------------ *)
InAuthenticator == pc \in {"ldapLoop", "htpasswd"}

\* C19: once checkUserPassword has been called it returns, whatever the
\* backends answer, timeouts of every directory backend included.
C19_AuthenticatorReturns == InAuthenticator ~> (pc = "authReturn")

\* checkUserPassword has returned after every directory backend timed out
C19_Witness ==
  /\ pc = "authReturn"
  /\ Len(consulted) = 2
  /\ Len(ldapUrls) = 2
  /\ \A k \in DOMAIN consulted : consulted[k].result = "err"
  /\ err = "ldap: timeout"
  /\ ~HasHtpasswd(config)


(* ------------------------------------------------------------------ *)
(* C20                                                                  *)
(* ------------------------------------------------------------------ *)
\* C20: whatever the method, an authenticated request for another identity
\* ends with 403 and a request without credential or with a denied one ends
\* with 401; a 405 is written only for a method other than GET and POST of a
\* request that has authenticated and asks for its own identity.
C20_IdentityBeforeDispatch ==
  /\ \A m \in Methods :
       (pc = "done" /\ r.Method = m)
         => /\ (AuthSucceeded /\ r.Path.rest # r.Authorization.user)
                 => w.status = <<403>>
            /\ (~HasCredential \/ SomeDeny) => w.status = <<401>>
  /\ w.status = <<405>>
       => /\ OtherMethod
          /\ AuthSucceeded
          /\ r.Path.rest = r.Authorization.user
          /\ trace = <<"BasicAuth", "checkAuth:ok", "identity">>

C20_Witness ==
  /\ pc = "done"
  /\ r.Method = "PUT"
  /\ AuthSucceeded
  /\ r.Path.rest # r.Authorization.user
  /\ w.status = <<403>>

====
